---- MODULE Spec2Model ----
(***************************************************************************)
(* Lotofacil recommendation pipeline (association/association.py) and the  *)
(* one-hot export utility (association/transform.py).                       *)
(*                                                                         *)
(* The pipeline is a single batch pass:                                    *)
(*   load_and_prepare_data -> analyze_patterns -> calculate_recommendations *)
(* The export utility reads the draws file and writes the one-hot file     *)
(* that main() of association.py then feeds to the analyzer.               *)
(*                                                                         *)
(* Scale.  The code works on 25 numbers, 15 per draw, itemsets of at most  *)
(* 6 numbers, a recent window of 10 rows and a recommendation of 15        *)
(* numbers.  Exhaustive exploration over every history is only possible on *)
(* a reduced lottery, so these five sizes are parameters of the model      *)
(* (NumCount, DrawSize, MaxLen, RecentWindow, TopCount) and the code is    *)
(* translated with the parameter in place of the literal.                  *)
(*                                                                         *)
(* Arithmetic.  The code computes supports, confidences and scores in      *)
(* binary floating point.  The model computes them exactly: a support is a *)
(* pair <<count, rows>>, a confidence a pair <<count, count>>, and a score *)
(* is the integer  score * 10 * rows * window * Lcm(rows).                 *)
(***************************************************************************)
EXTENDS Integers, Sequences, FiniteSets, TLC

\* ----------------------------------------------------------------- sizes
NumCount == 4           \* range(25): the numbers are 1..NumCount
DrawSize == 3           \* a draw holds 15 numbers
MaxLen == 2             \* apriori(max_len=6)
RecentWindow == 2       \* iloc[-10:]
TopCount == 3           \* sorted(...)[:15]
MaxRows == 4            \* longest draw history explored
MaxRawRows == 2         \* longest unvalidated input table explored

\* weights of the three signals, in tenths
WeightFrequency == 3
WeightRules == 4
WeightRecent == 3

Numbers == 1..NumCount

\* pandas reads a missing field as NaN
NaN == -999

Max(a, b) == IF a >= b THEN a ELSE b
Min(a, b) == IF a <= b THEN a ELSE b

RECURSIVE SeqOfSet(_)
\* the members of a set of integers in ascending order
SeqOfSet(S) ==
    IF S = {} THEN <<>>
    ELSE LET m == CHOOSE x \in S : \A y \in S : x <= y
         IN  <<m>> \o SeqOfSet(S \ {m})

RECURSIVE SumOver(_, _)
\* sum of f[x] over the finite set dom
SumOver(f, dom) ==
    IF dom = {} THEN 0
    ELSE LET x == CHOOSE y \in dom : TRUE
         IN  f[x] + SumOver(f, dom \ {x})

RECURSIVE Gcd(_, _)
Gcd(a, b) == IF b = 0 THEN a ELSE Gcd(b, a % b)

RECURSIVE LcmUpTo(_)
\* least common multiple of 1..n: every antecedent count divides it
LcmUpTo(n) == IF n <= 1 THEN 1 ELSE LET l == LcmUpTo(n - 1) IN (l * n) \div Gcd(l, n)

\* ------------------------------------------------------------ the inputs
\* a well-formed draw: DrawSize distinct numbers of 1..NumCount
Draws == {d \in SUBSET Numbers : Cardinality(d) = DrawSize}

\* a row of the draws file, as read_csv returns it
DrawRows == {SeqOfSet(d) : d \in Draws}

RECURSIVE SeqsUpTo(_, _)
\* the non-empty sequences over S of length at most n
SeqsUpTo(S, n) ==
    IF n = 0 THEN {}
    ELSE LET shorter == SeqsUpTo(S, n - 1)
         IN  {<<x>> : x \in S} \union shorter \union
             {Append(s, x) : s \in shorter, x \in S}

DrawHistories == SeqsUpTo(DrawRows, MaxRows)

\* cell values of an unvalidated file: 0 and NumCount + 1 are out of range
RawValues == 0..(NumCount + 1)

NonDecreasing(r) == \A i \in 1..(Len(r) - 1) : r[i] <= r[i + 1]

\* rows of an unvalidated file: DrawSize cells, possibly repeated or out of
\* range values, or a row one field short (its last cell reads as NaN)
RawRows ==
    {r \in [1..DrawSize -> RawValues] : NonDecreasing(r)} \union
    {Append(r, NaN) : r \in {q \in [1..(DrawSize - 1) -> RawValues] : NonDecreasing(q)}}

RawTables == SeqsUpTo(RawRows, MaxRawRows)

\* the draw a row stands for, and whether the row is a well-formed draw
CellsOf(row) == {row[i] : i \in 1..Len(row)}
ValidRow(row) ==
    /\ Len(row) = DrawSize
    /\ CellsOf(row) \subseteq Numbers
    /\ Cardinality(CellsOf(row)) = DrawSize
ValidTable(t) == \A i \in 1..Len(t) : ValidRow(t[i])

\* thresholds are exact fractions <<numerator, denominator>>
MinSupports == {<<1, 4>>, <<3, 5>>, <<9, 10>>}
MinConfidences == {<<9, 20>>, <<9, 10>>}
MainMinSupport == <<1, 4>>         \* main(): min_support=0.25
MainMinConfidence == <<9, 20>>     \* main(): min_confidence=0.45

NoFile == <<>>

VARIABLES
    a_csv,               \* the draws file
    onehot_csv,          \* "lotofacil_onehot.csv", NoFile until exported
    csv_file,            \* self.csv_file: "a.csv" or "lotofacil_onehot.csv"
    min_support,         \* self.min_support
    min_confidence,      \* self.min_confidence
    pc,                  \* "new", "loaded", "mined", "scored", "failed"
    error,               \* the exception that ended the run, "" if none
    df,                  \* self.df
    onehot_df,           \* self.onehot_df: sequence of rows [Numbers -> 0..1]
    frequent_itemsets,   \* self.frequent_itemsets: set of [itemsets, support]
    rules,               \* self.rules: set of [antecedents, consequents, support, confidence]
    numero_frequency,    \* local of calculate_recommendations
    recent_freq,         \* local of calculate_recommendations
    number_scores,       \* local of calculate_recommendations
    recommended_numbers  \* self.recommended_numbers: sequence of <<number, score>>

vars == <<a_csv, onehot_csv, csv_file, min_support, min_confidence, pc, error, df,
          onehot_df, frequent_itemsets, rules, numero_frequency, recent_freq,
          number_scores, recommended_numbers>>

\* ------------------------------------------------------------ the encoder
\* row.astype(int): a NaN cell casts to a platform-dependent integer
AstypeInt(cell, nanAs) == IF cell = NaN THEN nanAs ELSE cell

\* what the cast of NaN can give: 0, or the most negative integer (from which
\* the subtraction of 1 wraps around; either way the index is far out of range)
NanCasts == {0, 0 - (2 * NumCount + 2)}

\* mutant: the shift to a 0-based index forgotten
NumerosSorteadosNoShift(row, nanAs) == [i \in 1..Len(row) |-> AstypeInt(row[i], nanAs)]

\* numeros_sorteados = row.astype(int) - 1
NumerosSorteados(row, nanAs) == [i \in 1..Len(row) |-> AstypeInt(row[i], nanAs) - 1]

\* numpy accepts an index i on an axis of NumCount entries iff -NumCount <= i < NumCount
IndexInBounds(i) == /\ i >= 0 - NumCount
                    /\ i < NumCount

\* the column (1-based number) a 0-based index addresses; negative indices wrap
ColumnOf(i) == IF i >= 0 THEN i + 1 ELSE i + NumCount + 1

\* onehot_matrix[idx, numeros_sorteados] = 1, on a row of zeros
OneHotRow(row, nanAs) ==
    LET idx == NumerosSorteados(row, nanAs)
    IN  [n \in Numbers |->
            IF \E i \in 1..Len(row) : ColumnOf(idx[i]) = n THEN 1 ELSE 0]

RowIndexError(row, nanAs) ==
    LET idx == NumerosSorteados(row, nanAs)
    IN  \E i \in 1..Len(row) : ~IndexInBounds(idx[i])

\* the loop over the rows of the file: the first bad index raises IndexError
EncodeFails(table, nanAs) == \E i \in 1..Len(table) : RowIndexError(table[i], nanAs)
EncodeTable(table, nanAs) == [i \in 1..Len(table) |-> OneHotRow(table[i], nanAs)]

\* transform.py: create_lotofacil_onehot, the same encoding
create_lotofacil_onehot(table, nanAs) == [i \in 1..Len(table) |-> OneHotRow(table[i], nanAs)]

\* resultado.to_csv(..., index=False) then pd.read_csv: a table whose rows are
\* the NumCount cells num_1..num_N of the matrix, each 0 or 1
ToCsv(matrix) == [i \in 1..Len(matrix) |-> [n \in 1..NumCount |-> matrix[i][n]]]

\* pd.read_csv(self.csv_file)
ReadCsv == IF csv_file = "a.csv" THEN a_csv ELSE onehot_csv

\* ----------------------------------------------------- the pattern miner
Rows(matrix) == Len(matrix)

\* number of rows of the matrix in which every column of S is 1
SupportCount(matrix, S) ==
    Cardinality({i \in 1..Len(matrix) : \A n \in S : matrix[i][n] = 1})

\* support >= min_support, with support = count / rows
MeetsSupport(count, rows, ms) == count * ms[2] >= ms[1] * rows

MaxOf(S) == CHOOSE x \in S : \A y \in S : y <= x

\* mlxtend generate_new_combinations: every combination of the previous level
\* extended by an item of that level greater than its last item
generate_new_combinations(old) ==
    LET items == UNION old
    IN  {c[1] \union {c[2]} : c \in {d \in old \X items : d[2] > MaxOf(d[1])}}

RECURSIVE AprioriLevelsOffByOne(_, _, _, _)
\* mutant: the loop runs one level past max_len
AprioriLevelsOffByOne(matrix, ms, max_itemset, prev) ==
    IF prev = {} \/ ~(max_itemset <= MaxLen) THEN {}
    ELSE LET combin == generate_new_combinations(prev)
             kept == {S \in combin :
                        MeetsSupport(SupportCount(matrix, S), Rows(matrix), ms)}
         IN  kept \union AprioriLevelsOffByOne(matrix, ms, max_itemset + 1, kept)

RECURSIVE AprioriLevels(_, _, _, _)
\* the while loop of apriori: levels above max_itemset, built from level prev
AprioriLevels(matrix, ms, max_itemset, prev) ==
    IF prev = {} \/ ~(max_itemset < MaxLen) THEN {}
    ELSE LET combin == generate_new_combinations(prev)
             kept == {S \in combin :
                        MeetsSupport(SupportCount(matrix, S), Rows(matrix), ms)}
         IN  kept \union AprioriLevels(matrix, ms, max_itemset + 1, kept)

\* apriori(self.onehot_df, min_support, use_colnames=True, max_len=6)
apriori(matrix, ms) ==
    LET level1 == {{n} : n \in {m \in Numbers :
                        MeetsSupport(SupportCount(matrix, {m}), Rows(matrix), ms)}}
        all == level1 \union AprioriLevels(matrix, ms, 1, level1)
    IN  {[itemsets |-> S, support |-> <<SupportCount(matrix, S), Rows(matrix)>>] : S \in all}

\* frequent_items_dict[itemset]: the support recorded for an itemset
SupportOf(freq, S) == (CHOOSE f \in freq : f.itemsets = S).support

\* confidence >= min_threshold, with confidence = sAC / sA
MeetsConfidence(sAC, sA, mc) == sAC[1] * mc[2] >= mc[1] * sA[1]

\* association_rules(frequent_itemsets, metric="confidence", min_threshold)
\* on a non-empty frequent-itemset table
association_rules(freq, mc) ==
    LET cands == UNION {{<<f, A>> : A \in (SUBSET f.itemsets) \ {{}, f.itemsets}} :
                            f \in {g \in freq : Cardinality(g.itemsets) >= 2}}
    IN  {[antecedents |-> c[2],
          consequents |-> c[1].itemsets \ c[2],
          support     |-> c[1].support,
          confidence  |-> <<c[1].support[1], SupportOf(freq, c[2])[1]>>] :
            c \in {d \in cands :
                     MeetsConfidence(d[1].support, SupportOf(freq, d[2]), mc)}}

\* ------------------------------------------------------------- the scorer
\* self.onehot_df.sum(): per column, the number of rows holding a 1
ColumnSum(matrix, n) == Cardinality({i \in 1..Len(matrix) : matrix[i][n] = 1})

\* mutant: the first rows instead of the last (iloc[:10])
recent_games_head(matrix) == SubSeq(matrix, 1, Min(RecentWindow, Len(matrix)))

\* self.onehot_df.iloc[-10:]
recent_games(matrix) == SubSeq(matrix, Max(1, Len(matrix) - RecentWindow + 1), Len(matrix))

\* the common denominator of the scores of one run is 10 * ScoreScale
ScoreUnit(matrix) == LcmUpTo(Len(matrix))

\* rule['confidence'] * rule['support'] * 0.4, scaled
RuleScore(matrix, rule) ==
    WeightRules * rule.support[1] * rule.confidence[1]
        * (ScoreUnit(matrix) \div rule.confidence[2]) * Len(recent_games(matrix))

\* numero_frequency = self.onehot_df.sum() / len(self.onehot_df)
NumeroFrequency(matrix) == [n \in Numbers |-> <<ColumnSum(matrix, n), Len(matrix)>>]

\* recent_freq = recent_games.sum() / len(recent_games)
RecentFreq(matrix) ==
    [n \in Numbers |-> <<ColumnSum(recent_games(matrix), n), Len(recent_games(matrix))>>]

\* numero_frequency[num] * 0.3, scaled
FrequencyTerm(matrix, n) ==
    WeightFrequency * NumeroFrequency(matrix)[n][1] * RecentFreq(matrix)[n][2] * ScoreUnit(matrix)

\* recent_freq[num] * 0.3, scaled
RecentTerm(matrix, n) ==
    WeightRecent * RecentFreq(matrix)[n][1] * Len(matrix) * ScoreUnit(matrix)

\* mutant: the score added to the antecedent numbers only
AddRuleAntecedentOnly(n, matrix, rule) ==
    IF n \in rule.antecedents THEN RuleScore(matrix, rule) ELSE 0

\* for num in ant_nums + cons_nums: number_scores[num] += score
\* what one rule adds to number_scores[n]
AddRule(n, matrix, rule) ==
    (IF n \in rule.antecedents THEN RuleScore(matrix, rule) ELSE 0)
    + (IF n \in rule.consequents THEN RuleScore(matrix, rule) ELSE 0)

RECURSIVE AddRules(_, _, _, _)
\* for _, rule in self.rules.iterrows(): ... accumulated into number_scores[n]
AddRules(score, n, matrix, rs) ==
    IF rs = {} THEN score
    ELSE LET r == CHOOSE x \in rs : TRUE
         IN  AddRules(score + AddRule(n, matrix, r), n, matrix, rs \ {r})

\* number_scores after the three passes
NumberScores(matrix, rs) ==
    [n \in Numbers |->
        AddRules(0 + FrequencyTerm(matrix, n), n, matrix, rs) + RecentTerm(matrix, n)]

\* number_scores.items(): the pairs in insertion order 1..NumCount
Items(scores) == [i \in 1..NumCount |-> <<i, scores[i]>>]

\* mutant: an item goes before the elements of equal key (ties reversed)
InsertDescendingTiesReversed(sorted, item) ==
    LET before == Cardinality({i \in 1..Len(sorted) : sorted[i][2] > item[2]})
    IN  SubSeq(sorted, 1, before) \o <<item>> \o SubSeq(sorted, before + 1, Len(sorted))

\* one step of a stable descending sort: the item goes after every element
\* whose key is at least its own
InsertDescending(sorted, item) ==
    LET before == Cardinality({i \in 1..Len(sorted) : sorted[i][2] >= item[2]})
    IN  SubSeq(sorted, 1, before) \o <<item>> \o SubSeq(sorted, before + 1, Len(sorted))

\* mutant: ascending order (reverse=True dropped)
InsertAscending(sorted, item) ==
    LET before == Cardinality({i \in 1..Len(sorted) : sorted[i][2] <= item[2]})
    IN  SubSeq(sorted, 1, before) \o <<item>> \o SubSeq(sorted, before + 1, Len(sorted))

RECURSIVE SortedAscendingFrom(_, _, _)
SortedAscendingFrom(items, k, acc) ==
    IF k > Len(items) THEN acc
    ELSE SortedAscendingFrom(items, k + 1, InsertAscending(acc, items[k]))

SortedAscending(items) == SortedAscendingFrom(items, 1, <<>>)

RECURSIVE SortedFrom(_, _, _)
SortedFrom(items, k, acc) ==
    IF k > Len(items) THEN acc
    ELSE SortedFrom(items, k + 1, InsertDescending(acc, items[k]))

\* sorted(items, key=lambda x: x[1], reverse=True): stable, ties keep their order
SortedReverse(items) == SortedFrom(items, 1, <<>>)

\* mutant: the slice one entry short
TopSliceShort(s) == SubSeq(s, 1, Min(TopCount, Len(s)) - 1)

\* [:15]
TopSlice(s) == SubSeq(s, 1, Min(TopCount, Len(s)))

\* ------------------------------------------------------------ the actions
NoFrame == <<>>          \* self.df / self.onehot_df = None
NoTable == {}            \* self.frequent_itemsets / self.rules = None
NoScores == <<>>         \* the locals and self.recommended_numbers = None

\* LotofacilAnalyzer.__init__ on a well-formed draw history
Init ==
    /\ a_csv \in DrawHistories
    /\ onehot_csv = NoFile
    /\ csv_file = "a.csv"
    /\ min_support \in MinSupports
    /\ min_confidence \in MinConfidences
    /\ pc = "new"
    /\ error = ""
    /\ df = NoFrame
    /\ onehot_df = NoFrame
    /\ frequent_itemsets = NoTable
    /\ rules = NoTable
    /\ numero_frequency = NoScores
    /\ recent_freq = NoScores
    /\ number_scores = NoScores
    /\ recommended_numbers = NoScores

\* the two programs on an unvalidated file: main() of association.py reads
\* "lotofacil_onehot.csv" with min_support=0.25, min_confidence=0.45; the
\* analyzer may also be pointed at the draws file itself
InitMain ==
    /\ a_csv \in RawTables
    /\ onehot_csv = NoFile
    /\ csv_file \in {"a.csv", "lotofacil_onehot.csv"}
    /\ min_support = MainMinSupport
    /\ min_confidence = MainMinConfidence
    /\ pc = "new"
    /\ error = ""
    /\ df = NoFrame
    /\ onehot_df = NoFrame
    /\ frequent_itemsets = NoTable
    /\ rules = NoTable
    /\ numero_frequency = NoScores
    /\ recent_freq = NoScores
    /\ number_scores = NoScores
    /\ recommended_numbers = NoScores

\* transform.py __main__: read the draws file, encode, write the one-hot file
transform_main ==
    /\ onehot_csv = NoFile
    /\ \E nanAs \in NanCasts :
          /\ ~EncodeFails(a_csv, nanAs)
          /\ onehot_csv' = ToCsv(create_lotofacil_onehot(a_csv, nanAs))
    /\ UNCHANGED <<a_csv, csv_file, min_support, min_confidence, pc, error, df,
                   onehot_df, frequent_itemsets, rules, numero_frequency,
                   recent_freq, number_scores, recommended_numbers>>

\* LotofacilAnalyzer.load_and_prepare_data
load_and_prepare_data ==
    /\ pc = "new"
    /\ \E nanAs \in NanCasts :
          IF ReadCsv = NoFile
          THEN /\ pc' = "failed"
               /\ error' = "FileNotFoundError"
               /\ UNCHANGED <<df, onehot_df>>
          ELSE /\ df' = ReadCsv
               /\ IF EncodeFails(ReadCsv, nanAs)
                  THEN /\ pc' = "failed"
                       /\ error' = "IndexError"
                       /\ UNCHANGED onehot_df
                  ELSE /\ pc' = "loaded"
                       /\ onehot_df' = EncodeTable(ReadCsv, nanAs)
                       /\ UNCHANGED error
    /\ UNCHANGED <<a_csv, onehot_csv, csv_file, min_support, min_confidence,
                   frequent_itemsets, rules, numero_frequency, recent_freq,
                   number_scores, recommended_numbers>>

\* LotofacilAnalyzer.analyze_patterns: association_rules raises ValueError on
\* an empty frequent-itemset table
analyze_patterns ==
    /\ pc = "loaded"
    /\ LET freq == apriori(onehot_df, min_support)
       IN  /\ frequent_itemsets' = freq
           /\ IF freq = {}
              THEN /\ pc' = "failed"
                   /\ error' = "ValueError"
                   /\ UNCHANGED rules
              ELSE /\ pc' = "mined"
                   /\ rules' = association_rules(freq, min_confidence)
                   /\ UNCHANGED error
    /\ UNCHANGED <<a_csv, onehot_csv, csv_file, min_support, min_confidence, df,
                   onehot_df, numero_frequency, recent_freq, number_scores,
                   recommended_numbers>>

\* LotofacilAnalyzer.calculate_recommendations
calculate_recommendations ==
    /\ pc = "mined"
    /\ numero_frequency' = NumeroFrequency(onehot_df)
    /\ recent_freq' = RecentFreq(onehot_df)
    /\ number_scores' = NumberScores(onehot_df, rules)
    /\ recommended_numbers' = TopSlice(SortedReverse(Items(number_scores')))
    /\ pc' = "scored"
    /\ UNCHANGED <<a_csv, onehot_csv, csv_file, min_support, min_confidence, error,
                   df, onehot_df, frequent_itemsets, rules>>

\* the analyzer alone
Next ==
    \/ load_and_prepare_data
    \/ analyze_patterns
    \/ calculate_recommendations

Spec == Init /\ [][Next]_vars

\* the export utility and the analyzer
NextMain ==
    \/ transform_main
    \/ load_and_prepare_data
    \/ analyze_patterns
    \/ calculate_recommendations

SpecMain == InitMain /\ [][NextMain]_vars

\* ---------------------------------------------------------- the properties
\* what the properties are stated about, read from the state alone
RowCount == Len(onehot_df)
DrawAt(i) == CellsOf(df[i])
Recommended == {recommended_numbers[i][1] : i \in 1..Len(recommended_numbers)}
RowsWith(S) == {i \in 1..Len(df) : S \subseteq DrawAt(i)}
RecentRows == {i \in 1..RowCount : i > RowCount - RecentWindow}
RulesWith(n) == {r \in rules : n \in r.antecedents \union r.consequents}
\* confidence * support of a rule, in units of 1 / (rows * Lcm(rows))
Strength(r) == r.support[1] * r.confidence[1] * (LcmUpTo(RowCount) \div r.confidence[2])
RuleStrength(n) == SumOver([r \in RulesWith(n) |-> Strength(r)], RulesWith(n))
AlwaysDrawn(n) == \A i \in 1..Len(df) : n \in DrawAt(i)

\* C1: after calculate_recommendations the Recommendation holds exactly
\* TopCount entries, each a number of 1..NumCount, pairwise distinct.
C1_RecommendationShape ==
    pc = "scored" =>
        /\ Len(recommended_numbers) = TopCount
        /\ \A i \in 1..Len(recommended_numbers) : recommended_numbers[i][1] \in Numbers
        /\ \A i, j \in 1..Len(recommended_numbers) :
              i # j => recommended_numbers[i][1] # recommended_numbers[j][1]

C1_Witness ==
    /\ pc = "scored"
    /\ rules # {}
    /\ Len(df) = MaxRows

\* C2: a table with a malformed draw (wrong cardinality or a value out of
\* range) makes load_and_prepare_data fail, and no Occurrence Matrix, itemset,
\* rule or score is produced for that run.
C2_MalformedDrawRejected ==
    (pc # "new" /\ csv_file = "a.csv" /\ ~ValidTable(a_csv)) =>
        /\ pc = "failed"
        /\ onehot_df = NoFrame
        /\ frequent_itemsets = NoTable
        /\ rules = NoTable
        /\ number_scores = NoScores

\* C3: on a well-formed draw history the Occurrence Matrix has one row per draw
\* in input order and one column per number, and the cell of row i, column n is
\* 1 iff n is in draw i; the export utility's encoder gives the same matrix.
C3_OccurrenceMatrix ==
    (pc \in {"loaded", "mined", "scored"} /\ ValidTable(df)) =>
        /\ Len(onehot_df) = Len(df)
        /\ \A i \in 1..Len(df) :
              /\ DOMAIN onehot_df[i] = Numbers
              /\ \A n \in Numbers : (onehot_df[i][n] = 1) <=> (n \in DrawAt(i))
              /\ \A n \in Numbers : onehot_df[i][n] \in {0, 1}
        /\ \A nanAs \in NanCasts : \A i \in 1..Len(df) : \A n \in Numbers :
              (create_lotofacil_onehot(df, nanAs)[i][n] = 1) <=> (n \in DrawAt(i))

C3_Witness ==
    /\ pc = "loaded"
    /\ Len(df) = 3
    /\ df[1] = df[3]
    /\ df[1] # df[2]

\* C4: the final score of every number is 0.3 * (fraction of all rows holding
\* it) + 0.4 * (sum of confidence * support over every rule with the number on
\* either side) + 0.3 * (fraction of the recent rows holding it).  Scores are in
\* units of 1 / (10 * rows * recent rows * Lcm(rows)).
C4_FinalScore ==
    pc = "scored" =>
        \A n \in Numbers :
            number_scores[n] =
                WeightFrequency * Cardinality(RowsWith({n}))
                    * Cardinality(RecentRows) * LcmUpTo(RowCount)
                + WeightRules * RuleStrength(n) * Cardinality(RecentRows)
                + WeightRecent * Cardinality(RowsWith({n}) \cap RecentRows)
                    * RowCount * LcmUpTo(RowCount)

C4_Witness ==
    /\ pc = "scored"
    /\ \E n, m \in Numbers :
          /\ Cardinality(RulesWith(n)) >= 2
          /\ RulesWith(m) # {}
          /\ RulesWith(m) # RulesWith(n)

\* C5: the Recommendation lists the TopCount best numbers by descending score;
\* among equal scores the smaller number comes first, inside the list and at the
\* cut-off against the numbers left out.
C5_Ranking ==
    pc = "scored" =>
        /\ \A i \in 1..Len(recommended_numbers) :
              recommended_numbers[i][2] = number_scores[recommended_numbers[i][1]]
        /\ \A i, j \in 1..Len(recommended_numbers) :
              i < j =>
                \/ recommended_numbers[i][2] > recommended_numbers[j][2]
                \/ /\ recommended_numbers[i][2] = recommended_numbers[j][2]
                   /\ recommended_numbers[i][1] < recommended_numbers[j][1]
        /\ \A m \in Numbers \ Recommended : \A i \in 1..Len(recommended_numbers) :
              \/ recommended_numbers[i][2] > number_scores[m]
              \/ /\ recommended_numbers[i][2] = number_scores[m]
                 /\ recommended_numbers[i][1] < m

C5_Witness ==
    /\ pc = "scored"
    /\ rules # {}
    /\ \E m \in Numbers \ Recommended :
          number_scores[m] = recommended_numbers[TopCount][2]
    /\ \E i \in 1..(TopCount - 1) :
          recommended_numbers[i][2] > recommended_numbers[i + 1][2]

\* C6: when no single number reaches min_support, analyze_patterns and
\* calculate_recommendations complete without an error, with an empty
\* frequent-itemset result and an empty rule set.
C6_EmptyMiningCompletes ==
    (/\ pc \in {"mined", "scored", "failed"}
     /\ \A n \in Numbers :
           ~MeetsSupport(Cardinality(RowsWith({n})), Len(df), min_support)) =>
        /\ pc # "failed"
        /\ error = ""
        /\ frequent_itemsets = {}
        /\ rules = {}

C8_ExportedMatrixUsedDirectly ==
    (/\ csv_file = "lotofacil_onehot.csv"
     /\ pc \in {"loaded", "mined", "scored"}
     /\ ValidTable(a_csv)) =>
        /\ Len(onehot_df) = Len(onehot_csv)
        /\ \A i \in 1..Len(onehot_csv) : \A n \in Numbers :
              onehot_df[i][n] = onehot_csv[i][n]

\* C9: every frequent itemset has between 1 and MaxLen members, its support is
\* the fraction of rows holding all its members and lies in [min_support, 1],
\* and each of its non-empty subsets is in the frequent-itemset result too.
C9_FrequentItemsets ==
    pc \in {"mined", "scored"} =>
        \A f \in frequent_itemsets :
            /\ Cardinality(f.itemsets) >= 1
            /\ Cardinality(f.itemsets) <= MaxLen
            /\ f.support = <<Cardinality(RowsWith(f.itemsets)), Len(df)>>
            /\ MeetsSupport(f.support[1], f.support[2], min_support)
            /\ f.support[1] <= f.support[2]
            /\ \A T \in (SUBSET f.itemsets) \ {{}} :
                  \E g \in frequent_itemsets : g.itemsets = T

C9_Witness ==
    /\ pc = "mined"
    /\ \E f \in frequent_itemsets : Cardinality(f.itemsets) = MaxLen
    /\ \E n \in Numbers : \A f \in frequent_itemsets : n \notin f.itemsets

\* C10: the recent-trend term of a number is the fraction of the last
\* RecentWindow rows holding it; a history of at most RecentWindow rows is used
\* whole, and the denominator is the number of rows used.
C10_RecentTrend ==
    pc = "scored" =>
        /\ \A n \in Numbers :
              recent_freq[n] =
                  <<Cardinality(RowsWith({n}) \cap RecentRows), Cardinality(RecentRows)>>
        /\ RowCount <= RecentWindow => RecentRows = 1..RowCount
        /\ Cardinality(RecentRows) = Min(RowCount, RecentWindow)

C10_Witness ==
    /\ pc = "scored"
    /\ RowCount = RecentWindow
    /\ \E n \in Numbers : recent_freq[n][1] = 1

====
